---- MODULE Spec2Model ----
\* Model of json2go's declaration synthesis (src/ast.go): the node tree built by
\* the inference pass is turned into go/ast type declarations (astMakeDecls) and
\* printed (astPrintDecls).
\*
\* Go strings are sequences of bytes (their byte values), so that the "<" of
\* sort.Slice's less function and the quoting done by astJSONTag are computed
\* rather than assumed.  An ast.Expr is a record tagged by its go/ast node type.
EXTENDS Integers, Sequences, FiniteSets, TLC

VARIABLES rootNodes, opts, pc, i, decls, ret, out

vars == <<rootNodes, opts, pc, i, decls, ret, out>>

\* ---------------------------------------------------------------- bounds

\* Largest arrayLevel of a node under test.
MaxArrayLevel == 2
\* Largest number of fields of an object node in the struct-layout inputs.
MaxFields == 3
\* Largest number of fields of an object node nested in another.
MaxInnerFields == 2
\* Largest length of a serialization key in the tag inputs.
MaxKeyLen == 2
\* Largest number of root nodes in the forest inputs.
MaxRoots == 2

\* ---------------------------------------------------------------- strings

\* The byte '"', the cutset of strings.Trim in astJSONTag.
chQuote == 34

strBool == <<98, 111, 111, 108>>                                   \* bool
strInt64 == <<105, 110, 116, 54, 52>>                              \* int64
strFloat64 == <<102, 108, 111, 97, 116, 54, 52>>                   \* float64
strString == <<115, 116, 114, 105, 110, 103>>                      \* string
strTimeAlias == <<61, 32, 116, 105, 109, 101, 46, 84, 105, 109, 101>>  \* = time.Time
strTime == <<116, 105, 109, 101, 46, 84, 105, 109, 101>>           \* time.Time
strPackageMain == <<112, 97, 99, 107, 97, 103, 101, 32, 109, 97, 105, 110>>  \* package main
strType == <<116, 121, 112, 101, 32>>                              \* "type "
strStruct == <<115, 116, 114, 117, 99, 116, 32, 123>>              \* "struct {"
strInterface == <<105, 110, 116, 101, 114, 102, 97, 99, 101, 123, 125>>  \* interface{}
strJSONOpen == <<96, 106, 115, 111, 110, 58, 34>>                  \* `json:"
strOmitempty == <<44, 111, 109, 105, 116, 101, 109, 112, 116, 121>>  \* ,omitempty
strJSONClose == <<34, 96>>                                         \* "`
strPerson == <<80, 101, 114, 115, 111, 110>>                       \* Person
strAge == <<97, 103, 101>>                                         \* age
strName == <<110, 97, 109, 101>>                                   \* name

\* Go's s < t on strings: bytewise lexicographic order.
RECURSIVE StrLess(_, _)
StrLess(s, t) ==
    IF t = <<>> THEN FALSE
    ELSE IF s = <<>> THEN TRUE
    ELSE IF Head(s) # Head(t) THEN Head(s) < Head(t)
    ELSE StrLess(Tail(s), Tail(t))

\* ---------------------------------------------------------------- ast.Expr

Ident(name) == [node |-> "Ident", name |-> name]
StarExpr(x) == [node |-> "StarExpr", x |-> x]
ArrayType(elt) == [node |-> "ArrayType", elt |-> elt]
MapType(key, value) == [node |-> "MapType", key |-> key, value |-> value]
StructType(fields) == [node |-> "StructType", fields |-> fields]
Field(name, type, tag) == [name |-> name, type |-> type, tag |-> tag]
BasicLit(value) == [node |-> "BasicLit", value |-> value]
GenDecl(name, type) == [tok |-> "TYPE", name |-> name, type |-> type]

\* The value an unwinding panic leaves in place of a result.
Panic == [node |-> "panic"]
IsPanic(e) == e.node = "panic"

newEmptyInterfaceExpr == [node |-> "InterfaceType"]

\* ---------------------------------------------------------------- options, nodes

Options == [stringPointersWhenKeyMissing : BOOLEAN, timeAsStr : BOOLEAN]

\* The node kinds of the type switch; "unknown" is any n.t the switch has no
\* case for (its default branch).
RecognizedKinds ==
    {"bool", "int", "float", "string", "time", "object", "extracted",
     "interface", "init", "map"}
Kinds == RecognizedKinds \cup {"unknown"}

Node(kind, name, key, children) ==
    [kind |-> kind, name |-> name, externalTypeID |-> <<>>, key |-> key,
     children |-> children, arrayLevel |-> 0, arrayWithNulls |-> FALSE,
     nullable |-> FALSE, required |-> TRUE, root |-> FALSE]

\* ---------------------------------------------------------------- astJSONTag

\* strconv.Quote on one byte of the key alphabet: '"' and '\' get a backslash,
\* a newline becomes \n, a printable byte stands for itself.
QuoteByte(b) ==
    IF b = 34 THEN <<92, 34>>
    ELSE IF b = 92 THEN <<92, 92>>
    ELSE IF b = 10 THEN <<92, 110>>
    ELSE <<b>>

RECURSIVE QuoteBody(_)
QuoteBody(s) == IF s = <<>> THEN <<>> ELSE QuoteByte(Head(s)) \o QuoteBody(Tail(s))

\* fmt.Sprintf("%#v", key): the Go-syntax double-quoted form of the key.
SprintfSharpV(key) == <<34>> \o QuoteBody(key) \o <<34>>

RECURSIVE TrimLeft(_, _)
TrimLeft(s, c) ==
    IF s # <<>> /\ Head(s) = c THEN TrimLeft(Tail(s), c) ELSE s

RECURSIVE TrimRight(_, _)
TrimRight(s, c) ==
    IF s # <<>> /\ s[Len(s)] = c THEN TrimRight(SubSeq(s, 1, Len(s) - 1), c) ELSE s

\* strings.Trim(s, `"`): every leading and every trailing '"' is removed.
Trim(s, c) == TrimRight(TrimLeft(s, c), c)

astJSONTag(key, omitempty) ==
    LET tag == Trim(SprintfSharpV(key), chQuote)
    IN  IF omitempty
        THEN BasicLit(strJSONOpen \o tag \o strOmitempty \o strJSONClose)
        ELSE BasicLit(strJSONOpen \o tag \o strJSONClose)

\* ---------------------------------------------------------------- pointer policy

\* The pointer decision with the not-required case left out.
astTypeShouldBeAPointerNullableOnly(n, notRequiredAsPointer, allowPointer) ==
    IF ~allowPointer THEN FALSE
    ELSE IF ~n.root /\ n.arrayLevel = 0 THEN n.nullable
    ELSE IF n.arrayLevel > 0 THEN n.arrayWithNulls
    ELSE FALSE

astTypeShouldBeAPointer(n, notRequiredAsPointer, allowPointer) ==
    IF ~allowPointer THEN FALSE
    ELSE IF ~n.root /\ n.arrayLevel = 0
         THEN n.nullable \/ (~n.required /\ notRequiredAsPointer)
    ELSE IF n.arrayLevel > 0
         THEN n.arrayWithNulls
    ELSE FALSE

\* notRequiredAsPointer left at its initial value for every kind.
notRequiredAsPointerAlways(n, o) == TRUE

\* notRequiredAsPointer starting from false: only the string cases can set it.
notRequiredAsPointerStringsOnly(n, o) ==
    /\ n.kind = "string" \/ (n.kind = "time" /\ o.timeAsStr)
    /\ o.stringPointersWhenKeyMissing

\* The local notRequiredAsPointer of astTypeFromNode after the type switch.
notRequiredAsPointer(n, o) ==
    IF n.kind = "string" THEN o.stringPointersWhenKeyMissing
    ELSE IF n.kind = "time" /\ o.timeAsStr THEN o.stringPointersWhenKeyMissing
    ELSE TRUE

\* allowPointer never cleared by the type switch.
allowPointerAlways(n) == TRUE

\* The local allowPointer of astTypeFromNode after the type switch.
allowPointer(n) == n.kind \notin {"interface", "init", "map"}

\* The time type without the alias form of root nodes.
astTypeFromTimeNodeNoAlias(n, o) ==
    IF o.timeAsStr THEN Ident(strString) ELSE Ident(strTime)

astTypeFromTimeNode(n, o) ==
    IF o.timeAsStr THEN Ident(strString)
    ELSE IF n.root THEN Ident(strTimeAlias)
    ELSE Ident(strTime)

astTypeFromExtractedNode(n) ==
    Ident(IF n.externalTypeID = <<>> THEN n.name ELSE n.externalTypeID)

\* The loop "for i := n.arrayLevel; i > 0; i--" wrapping the type in arrays.
RECURSIVE WrapArrays(_, _)
WrapArrays(t, level) ==
    IF level > 0 THEN WrapArrays(ArrayType(t), level - 1) ELSE t

\* The arrays first and the pointer around them.
WrapResultPointerOutside(n, o, resultType) ==
    IF astTypeShouldBeAPointer(n, notRequiredAsPointer(n, o), allowPointer(n))
    THEN StarExpr(WrapArrays(resultType, n.arrayLevel))
    ELSE WrapArrays(resultType, n.arrayLevel)

\* The tail of astTypeFromNode: the pointer, then the arrays around it.
WrapResult(n, o, resultType) ==
    WrapArrays(
        IF astTypeShouldBeAPointer(n, notRequiredAsPointer(n, o), allowPointer(n))
        THEN StarExpr(resultType) ELSE resultType,
        n.arrayLevel)

\* ---------------------------------------------------------------- struct layout

\* A less function that compares the serialization keys instead of the names.
lessByKey(a, b) == StrLess(a.key, b.key)

\* The less function handed to sort.Slice: by name, bytewise.
less(a, b) == StrLess(a.name, b.name)

\* sort.Slice on a short slice is an insertion sort: each element moves left
\* past every element it is less than.
RECURSIVE InsertSorted(_, _)
InsertSorted(s, x) ==
    IF s # <<>> /\ less(x, s[Len(s)])
    THEN Append(InsertSorted(SubSeq(s, 1, Len(s) - 1), x), s[Len(s)])
    ELSE Append(s, x)

RECURSIVE SortSlice(_)
SortSlice(s) ==
    IF s = <<>> THEN <<>>
    ELSE InsertSorted(SortSlice(SubSeq(s, 1, Len(s) - 1)), s[Len(s)])

\* The children as they come, the call of sort.Slice left out.
unsortedChildren(n) == n.children

\* The slice sortedChildren of astStructTypeFromNode, after sort.Slice.
sortedChildren(n) == SortSlice(n.children)

RECURSIVE astTypeFromNode(_, _)
RECURSIVE astStructTypeFromNode(_, _)
RECURSIVE astTypeFromMapNode(_, _)

astStructTypeFromNode(n, o) ==
    LET sorted == sortedChildren(n)
        fields == [j \in 1..Len(sorted) |->
                     Field(sorted[j].name,
                           astTypeFromNode(sorted[j], o),
                           astJSONTag(sorted[j].key, ~sorted[j].required))]
    IN  IF \E j \in 1..Len(sorted) : IsPanic(fields[j].type)
        THEN Panic
        ELSE StructType(fields)

astTypeFromMapNode(n, o) ==
    LET ve == IF Len(n.children) = 0
              THEN newEmptyInterfaceExpr
              ELSE astTypeFromNode(n.children[1], o)
    IN  IF IsPanic(ve) THEN Panic ELSE MapType(Ident(strString), ve)

\* The type switch of astTypeFromNode: the expression before pointer and arrays.
baseType(n, o) ==
    CASE n.kind = "bool" -> Ident(strBool)
      [] n.kind = "int" -> Ident(strInt64)
      [] n.kind = "float" -> Ident(strFloat64)
      [] n.kind = "string" -> Ident(strString)
      [] n.kind = "time" -> astTypeFromTimeNode(n, o)
      [] n.kind = "object" -> astStructTypeFromNode(n, o)
      [] n.kind = "extracted" -> astTypeFromExtractedNode(n)
      [] n.kind \in {"interface", "init"} -> newEmptyInterfaceExpr
      [] n.kind = "map" -> astTypeFromMapNode(n, o)
      [] OTHER -> Panic

astTypeFromNode(n, o) ==
    LET resultType == baseType(n, o)
    IN  IF IsPanic(resultType) THEN Panic ELSE WrapResult(n, o, resultType)

\* ---------------------------------------------------------------- declarations

\* One iteration of astMakeDecls' loop: the declaration of one root node.
declOf(n, o) == GenDecl(n.name, astTypeFromNode(n, o))

\* astMakeDecls as a whole: the declarations, or the panic that unwinds it.
astMakeDecls(nodes, o) ==
    LET ds == [j \in 1..Len(nodes) |-> declOf(nodes[j], o)]
    IN  IF \E j \in 1..Len(nodes) : IsPanic(ds[j].type)
        THEN [panicked |-> TRUE, decls |-> <<>>]
        ELSE [panicked |-> FALSE, decls |-> ds]

\* go/printer on one expression.  Column alignment and nested indentation are
\* the printer's own and are not reproduced: a field is a tab, then its name,
\* type and tag with one space between.
RECURSIVE printExpr(_)
RECURSIVE printFields(_)
printFields(fs) ==
    IF fs = <<>> THEN <<>>
    ELSE <<9>> \o Head(fs).name \o <<32>> \o printExpr(Head(fs).type)
         \o <<32>> \o Head(fs).tag.value \o <<10>> \o printFields(Tail(fs))

printExpr(e) ==
    CASE e.node = "Ident" -> e.name
      [] e.node = "StarExpr" -> <<42>> \o printExpr(e.x)
      [] e.node = "ArrayType" -> <<91, 93>> \o printExpr(e.elt)
      [] e.node = "MapType" ->
            <<109, 97, 112, 91>> \o printExpr(e.key) \o <<93>> \o printExpr(e.value)
      [] e.node = "InterfaceType" -> strInterface
      [] e.node = "StructType" ->
            strStruct \o <<10>> \o printFields(e.fields) \o <<125>>

RECURSIVE printDecls(_)
printDecls(ds) ==
    IF ds = <<>> THEN <<>>
    ELSE <<10>> \o strType \o Head(ds).name \o <<32>> \o printExpr(Head(ds).type)
         \o <<10>> \o printDecls(Tail(ds))

\* prn.Fprint on the file "package main" holding the declarations.
Fprint(ds) == strPackageMain \o <<10>> \o printDecls(ds)

IsPrefix(p, s) == Len(p) <= Len(s) /\ SubSeq(s, 1, Len(p)) = p
TrimPrefix(s, p) == IF IsPrefix(p, s) THEN SubSeq(s, Len(p) + 1, Len(s)) ELSE s

IsSpace(b) == b \in {9, 10, 11, 12, 13, 32}

RECURSIVE TrimSpaceLeft(_)
TrimSpaceLeft(s) == IF s # <<>> /\ IsSpace(Head(s)) THEN TrimSpaceLeft(Tail(s)) ELSE s
RECURSIVE TrimSpaceRight(_)
TrimSpaceRight(s) ==
    IF s # <<>> /\ IsSpace(s[Len(s)])
    THEN TrimSpaceRight(SubSeq(s, 1, Len(s) - 1)) ELSE s
TrimSpace(s) == TrimSpaceRight(TrimSpaceLeft(s))

astPrintDecls(ds) == TrimSpace(TrimPrefix(Fprint(ds), strPackageMain))

\* ---------------------------------------------------------------- inputs

\* Every sequence without repetition of at most k elements of S.
RECURSIVE Arrangements(_, _)
Arrangements(S, k) ==
    IF k = 0 THEN {<<>>}
    ELSE {<<>>} \cup UNION {{<<x>> \o r : r \in Arrangements(S \ {x}, k - 1)} : x \in S}

RECURSIVE SeqsUpTo(_, _)
SeqsUpTo(S, k) ==
    IF k = 0 THEN {<<>>}
    ELSE {<<>>} \cup UNION {{<<x>> \o r : r \in SeqsUpTo(S, k - 1)} : x \in S}

AsRoot(n) == [n EXCEPT !.root = TRUE]

nameA == <<97>>
nameAB == <<97, 98>>
nameB == <<98>>
nameBA == <<98, 97>>
nameT == <<84>>
nameM == <<77>>
nameP == <<112>>
nameExt == <<69, 120, 116>>
keyK == <<107>>

\* The field names of the struct-layout inputs: a, ab, b, ba.
NamePool == {nameA, nameAB, nameB, nameBA}

\* The serialization key of the field named nm: keys order the other way round
\* than names (a -> "z", ab -> "y", b -> "x", ba -> "w").
KeyOf(nm) ==
    CASE nm = nameA -> <<122>>
      [] nm = nameAB -> <<121>>
      [] nm = nameB -> <<120>>
      [] nm = nameBA -> <<119>>

\* A leaf field of the struct-layout inputs; its kind and flags go with its name.
LeafField(nm) ==
    CASE nm = nameA -> Node("string", nm, KeyOf(nm), <<>>)
      [] nm = nameAB -> [Node("int", nm, KeyOf(nm), <<>>) EXCEPT !.required = FALSE]
      [] nm = nameB -> [Node("bool", nm, KeyOf(nm), <<>>) EXCEPT !.nullable = TRUE]
      [] nm = nameBA ->
            [Node("time", nm, KeyOf(nm), <<>>) EXCEPT
                !.arrayLevel = 1, !.arrayWithNulls = TRUE, !.required = FALSE]

LeafFields(names) == [j \in 1..Len(names) |-> LeafField(names[j])]

\* The child lists of an inner object: leaf fields a, ab, b in every order.
InnerChildren ==
    {LeafFields(a) : a \in Arrangements({nameA, nameAB, nameB}, MaxInnerFields)}

\* The child lists of the object a map holds: two leaf fields, either order.
MapObjectChildren == {LeafFields(<<nameB, nameA>>), LeafFields(<<nameA, nameB>>)}

\* The fields a root object may hold under the name nm: "a" is a nullable inner
\* object, "b" a map of objects, the others are leaves.
OuterFields(nm) ==
    CASE nm = nameA ->
            {[Node("object", nm, KeyOf(nm), c) EXCEPT !.nullable = TRUE] :
                c \in InnerChildren}
      [] nm = nameB ->
            {Node("map", nm, KeyOf(nm), <<Node("object", nameP, keyK, c)>>) :
                c \in MapObjectChildren}
      [] OTHER -> {LeafField(nm)}

RECURSIVE OuterChildren(_)
OuterChildren(names) ==
    IF names = <<>> THEN {<<>>}
    ELSE {<<f>> \o r : f \in OuterFields(Head(names)), r \in OuterChildren(Tail(names))}

\* Struct-layout inputs: one root object, its fields in every order.
LayoutForests ==
    UNION {{<<AsRoot(Node("object", nameT, <<>>, c))>> : c \in OuterChildren(a)} :
             a \in Arrangements(NamePool, MaxFields)}

\* The child lists of a node under test of the given kind.
ProbeChildren(kind) ==
    CASE kind = "object" -> {LeafFields(<<nameB, nameAB>>)}
      [] kind = "map" -> {<<>>, <<LeafField(nameAB)>>}
      [] OTHER -> {<<>>}

\* Nodes under test: every kind with every combination of the flags.
Probes ==
    UNION {{[kind |-> k, name |-> nameP, externalTypeID |-> ext, key |-> keyK,
             children |-> c, arrayLevel |-> al, arrayWithNulls |-> awn,
             nullable |-> nul, required |-> req, root |-> FALSE] :
               c \in ProbeChildren(k),
               ext \in IF k = "extracted" THEN {<<>>, nameExt} ELSE {<<>>},
               al \in 0..MaxArrayLevel, awn \in BOOLEAN, nul \in BOOLEAN,
               req \in BOOLEAN} : k \in Kinds}

\* A node under test as a root, as a struct field and as a map's value.
ProbeForests ==
    {<<AsRoot(p)>> : p \in Probes}
    \cup {<<AsRoot(Node("object", nameT, <<>>, <<p>>))>> : p \in Probes}
    \cup {<<AsRoot(Node("map", nameM, <<>>, <<p>>))>> : p \in Probes}

\* The example of the specification: Person with a required string "name" and
\* a not-required integer "age", the children in either order.
personName == Node("string", strName, strName, <<>>)
personAge == [Node("int", strAge, strAge, <<>>) EXCEPT !.required = FALSE]
PersonForests ==
    {<<AsRoot(Node("object", strPerson, <<>>, c))>> :
        c \in {<<personName, personAge>>, <<personAge, personName>>}}

\* Keys over the bytes '"', '\', newline and 'a'.
KeyAlphabet == {34, 92, 10, 97}
Keys == SeqsUpTo(KeyAlphabet, MaxKeyLen)
KeyForests ==
    {<<AsRoot(Node("object", nameT, <<>>,
                   <<[Node("string", nameA, k, <<>>) EXCEPT !.required = req]>>))>> :
        k \in Keys, req \in BOOLEAN}

\* Root nodes of the forest inputs: some reach a node of an unrecognized kind
\* (at the root, in a field, in a field of a field, as a map's value).
unknownField == Node("unknown", nameB, KeyOf(nameB), <<>>)
RootPool ==
    {AsRoot(Node("string", nameA, <<>>, <<>>)),
     AsRoot(Node("unknown", nameB, <<>>, <<>>)),
     AsRoot(Node("object", nameAB, <<>>, <<LeafField(nameA), unknownField>>)),
     AsRoot(Node("object", nameBA, <<>>,
                 <<Node("object", nameA, KeyOf(nameA), <<unknownField>>)>>)),
     AsRoot(Node("map", nameM, <<>>, <<unknownField>>)),
     AsRoot(Node("object", nameT, <<>>, LeafFields(<<nameB, nameA>>))),
     AsRoot([Node("time", nameP, <<>>, <<>>) EXCEPT !.arrayLevel = 1])}
MultiRootForests == SeqsUpTo(RootPool, MaxRoots)

Forests ==
    ProbeForests \cup LayoutForests \cup PersonForests \cup KeyForests
    \cup MultiRootForests

\* ---------------------------------------------------------------- the emitter

NotReturned == [panicked |-> FALSE, returned |-> FALSE, decls |-> <<>>]

Init ==
    /\ rootNodes \in Forests
    /\ opts \in Options
    /\ pc = "loop"
    /\ i = 1
    /\ decls = <<>>
    /\ ret = NotReturned
    /\ out = <<>>

\* One iteration of "for _, node := range rootNodes" that appends a declaration.
MakeDeclsLoop ==
    /\ pc = "loop"
    /\ i <= Len(rootNodes)
    /\ ~IsPanic(declOf(rootNodes[i], opts).type)
    /\ decls' = Append(decls, declOf(rootNodes[i], opts))
    /\ i' = i + 1
    /\ UNCHANGED <<rootNodes, opts, pc, ret, out>>

\* The panic recovered, and the declarations made so far returned.
MakeDeclsPanicRecovered ==
    /\ pc = "loop"
    /\ i <= Len(rootNodes)
    /\ IsPanic(declOf(rootNodes[i], opts).type)
    /\ pc' = "returned"
    /\ ret' = [panicked |-> FALSE, returned |-> TRUE, decls |-> decls]
    /\ UNCHANGED <<rootNodes, opts, i, decls, out>>

\* The iteration in which astTypeFromNode panics: astMakeDecls is unwound and
\* returns nothing.
MakeDeclsPanic ==
    /\ pc = "loop"
    /\ i <= Len(rootNodes)
    /\ IsPanic(declOf(rootNodes[i], opts).type)
    /\ pc' = "panic"
    /\ ret' = [panicked |-> TRUE, returned |-> FALSE, decls |-> <<>>]
    /\ UNCHANGED <<rootNodes, opts, i, decls, out>>

\* "return decls" after the loop.
MakeDeclsReturn ==
    /\ pc = "loop"
    /\ i > Len(rootNodes)
    /\ pc' = "returned"
    /\ ret' = [panicked |-> FALSE, returned |-> TRUE, decls |-> decls]
    /\ UNCHANGED <<rootNodes, opts, i, decls, out>>

\* astPrintDecls on the declarations astMakeDecls returned.
PrintDecls ==
    /\ pc = "returned"
    /\ out' = astPrintDecls(ret.decls)
    /\ pc' = "printed"
    /\ UNCHANGED <<rootNodes, opts, i, decls, ret>>

Next == MakeDeclsLoop \/ MakeDeclsPanic \/ MakeDeclsReturn \/ PrintDecls

Spec == Init /\ [][Next]_vars

\* ---------------------------------------------------------------- properties

RECURSIVE Subnodes(_)
Subnodes(n) == {n} \cup UNION {Subnodes(n.children[c]) : c \in 1..Len(n.children)}

\* Every node of the input forest.
InputNodes == UNION {Subnodes(rootNodes[j]) : j \in 1..Len(rootNodes)}

\* astMakeDecls has returned, or has been unwound by a panic.
Finished == pc \in {"returned", "panic"}

\* s is not in ascending order of name.
Unsorted(s) == \E j \in 1..(Len(s) - 1) : ~StrLess(s[j].name, s[j + 1].name)

\* The fields of struct st are those of object node n: one per child, in
\* strictly ascending order of name, each with its child's name, type and tag.
StructLayoutOf(st, n, o) ==
    /\ st.node = "StructType"
    /\ Len(st.fields) = Len(n.children)
    /\ \A j \in 1..(Len(st.fields) - 1) :
          StrLess(st.fields[j].name, st.fields[j + 1].name)
    /\ \A c \in 1..Len(n.children) :
          \E j \in 1..Len(st.fields) :
             /\ st.fields[j].name = n.children[c].name
             /\ st.fields[j].type = astTypeFromNode(n.children[c], o)
             /\ st.fields[j].tag
                  = astJSONTag(n.children[c].key, ~n.children[c].required)

\* C1: for every object node of the input (child names pairwise distinct) that
\* does not reach a panic, astStructTypeFromNode yields one field per child, in
\* strictly ascending order of name whatever the order of the children, each
\* field carrying its child's name, astTypeFromNode of that child and the tag
\* of that child's key and required flag; the struct of a returned declaration
\* of a root object is laid out so.
C1_SortedFields ==
    /\ Finished =>
          \A n \in InputNodes :
             (n.kind = "object" /\ ~IsPanic(astStructTypeFromNode(n, opts)))
                => StructLayoutOf(astStructTypeFromNode(n, opts), n, opts)
    /\ pc = "returned" =>
          \A j \in 1..Len(rootNodes) :
             (rootNodes[j].kind = "object" /\ rootNodes[j].arrayLevel = 0)
                => StructLayoutOf(ret.decls[j].type, rootNodes[j], opts)

\* A root object with three fields given out of order has been declared.
C1_Witness ==
    /\ pc = "returned"
    /\ Len(rootNodes) = 1
    /\ rootNodes[1].kind = "object"
    /\ Len(rootNodes[1].children) = 3
    /\ Unsorted(rootNodes[1].children)
    /\ ret.decls[1].type.node = "StructType"
    /\ Len(ret.decls[1].type.fields) = 3

\* Every order of the sequence s.
Orders(s) ==
    {[j \in 1..Len(s) |-> s[p[j]]] : p \in Permutations(1..Len(s))}

\* Every tree obtained from n by reordering the children of one object node
\* of n, at any depth.
RECURSIVE ReorderOne(_)
ReorderOne(n) ==
    (IF n.kind = "object"
     THEN {[n EXCEPT !.children = q] : q \in Orders(n.children)}
     ELSE {n})
    \cup UNION {{[n EXCEPT !.children[c] = m] : m \in ReorderOne(n.children[c])} :
                  c \in 1..Len(n.children)}

ForestReorderings(T) ==
    UNION {{[T EXCEPT ![j] = m] : m \in ReorderOne(T[j])} : j \in 1..Len(T)}

\* C2: once the forest is printed, astMakeDecls run on the forest with the
\* children of any of its object nodes (at any depth) reordered returns the very
\* declarations that were printed, so the emitter's text is the same; and when
\* the run panicked, so does every such reordering.  Every reordering of an
\* input is an input too, so reorderings of several nodes at once are covered
\* one node at a time.
C2_FieldOrderInvariance ==
    /\ pc = "printed" =>
          /\ out = astPrintDecls(ret.decls)
          /\ \A T \in ForestReorderings(rootNodes) :
                astMakeDecls(T, opts) = [panicked |-> FALSE, decls |-> ret.decls]
    /\ pc = "panic" =>
          \A T \in ForestReorderings(rootNodes) : astMakeDecls(T, opts).panicked

\* A root object with unsorted fields, one of them an object with unsorted
\* fields of its own, has been printed.
C2_Witness ==
    /\ pc = "printed"
    /\ out # <<>>
    /\ Len(rootNodes) = 1
    /\ rootNodes[1].kind = "object"
    /\ Unsorted(rootNodes[1].children)
    /\ \E c \in 1..Len(rootNodes[1].children) :
          /\ rootNodes[1].children[c].kind = "object"
          /\ Len(rootNodes[1].children[c].children) >= 2
          /\ Unsorted(rootNodes[1].children[c].children)

\* C3: a string node with arrayLevel 0 is typed *string iff it is not a root
\* and is nullable, or not required while stringPointersWhenKeyMissing is set;
\* otherwise it is typed string.
C3_StringPointerPolicy ==
    Finished => \A n \in InputNodes :
       (n.kind = "string" /\ n.arrayLevel = 0) =>
          astTypeFromNode(n, opts)
             = IF ~n.root /\ (n.nullable
                              \/ (~n.required /\ opts.stringPointersWhenKeyMissing))
               THEN StarExpr(Ident(strString))
               ELSE Ident(strString)

\* A struct field that is a not-required, non-nullable string has been declared
\* *string under stringPointersWhenKeyMissing.
C3_Witness ==
    /\ pc = "returned"
    /\ opts.stringPointersWhenKeyMissing
    /\ Len(rootNodes) = 1
    /\ rootNodes[1].kind = "object"
    /\ Len(rootNodes[1].children) = 1
    /\ rootNodes[1].children[1].kind = "string"
    /\ rootNodes[1].children[1].arrayLevel = 0
    /\ ~rootNodes[1].children[1].required
    /\ ~rootNodes[1].children[1].nullable
    /\ ret.decls[1].type.fields[1].type = StarExpr(Ident(strString))

\* The struct field under test of a one-field root object.
ProbeIsField ==
    /\ Len(rootNodes) = 1
    /\ rootNodes[1].kind = "object"
    /\ rootNodes[1].arrayLevel = 0
    /\ Len(rootNodes[1].children) = 1
ProbeField == rootNodes[1].children[1]
ProbeFieldType == ret.decls[1].type.fields[1].type

\* The plain value type of a boolean, integer or float node.
ValueType(n) ==
    CASE n.kind = "bool" -> Ident(strBool)
      [] n.kind = "int" -> Ident(strInt64)
      [] n.kind = "float" -> Ident(strFloat64)

\* C4, as claimed: a non-root boolean, integer or float node with arrayLevel 0
\* is typed as a pointer iff it is nullable (a not-required, non-nullable one
\* gets the plain value type).
C4_NumericPointerIffNullable ==
    Finished => \A n \in InputNodes :
       (n.kind \in {"bool", "int", "float"} /\ ~n.root /\ n.arrayLevel = 0) =>
          astTypeFromNode(n, opts)
             = IF n.nullable THEN StarExpr(ValueType(n)) ELSE ValueType(n)

\* C4, amended: a non-root boolean, integer or float node with arrayLevel 0 is
\* typed as a pointer iff it is nullable or not required, under every setting
\* of the options; a required, non-nullable one gets the plain value type.
C4_NumericPointerIffNullableOrMissing ==
    Finished => \A n \in InputNodes :
       (n.kind \in {"bool", "int", "float"} /\ ~n.root /\ n.arrayLevel = 0) =>
          astTypeFromNode(n, opts)
             = IF n.nullable \/ ~n.required
               THEN StarExpr(ValueType(n)) ELSE ValueType(n)

\* A struct field that is a not-required, non-nullable float has been declared
\* *float64 with stringPointersWhenKeyMissing unset.
C4_Witness ==
    /\ pc = "returned"
    /\ ~opts.stringPointersWhenKeyMissing
    /\ ProbeIsField
    /\ ProbeField.kind = "float"
    /\ ProbeField.arrayLevel = 0
    /\ ~ProbeField.required
    /\ ~ProbeField.nullable
    /\ ProbeFieldType = StarExpr(Ident(strFloat64))

personTagAge ==
    BasicLit(<<96, 106, 115, 111, 110, 58, 34, 97, 103, 101, 44, 111, 109, 105,
               116, 101, 109, 112, 116, 121, 34, 96>>)   \* `json:"age,omitempty"`
personTagName ==
    BasicLit(<<96, 106, 115, 111, 110, 58, 34, 110, 97, 109, 101, 34, 96>>)  \* `json:"name"`

PersonInput ==
    /\ rootNodes = <<AsRoot(Node("object", strPerson, <<>>, <<personName, personAge>>))>>
    /\ opts = [stringPointersWhenKeyMissing |-> TRUE, timeAsStr |-> FALSE]

\* C5: the root object Person with the children (required string "name",
\* not-required integer "age") in this order, under stringPointersWhenKeyMissing
\* and not timeAsStr, is declared as the one plain struct Person with the fields
\* age *int64 `json:"age,omitempty"` and name string `json:"name"`, in this
\* order; and every non-root, not-required integer node with arrayLevel 0 is
\* typed *int64.
C5_PersonExample ==
    /\ (PersonInput /\ pc = "returned") =>
          ret.decls
            = <<GenDecl(strPerson,
                  StructType(<<Field(strAge, StarExpr(Ident(strInt64)), personTagAge),
                               Field(strName, Ident(strString), personTagName)>>))>>
    /\ Finished => \A n \in InputNodes :
          (n.kind = "int" /\ ~n.root /\ n.arrayLevel = 0 /\ ~n.required) =>
             astTypeFromNode(n, opts) = StarExpr(Ident(strInt64))

\* The Person example has been declared.
C5_Witness ==
    /\ PersonInput
    /\ pc = "returned"
    /\ Len(ret.decls) = 1
    /\ ret.decls[1].name = strPerson

\* t with k array wrappers taken off, or a marker when t has fewer.
RECURSIVE Peel(_, _)
Peel(t, k) ==
    IF k = 0 THEN t
    ELSE IF t.node = "ArrayType" THEN Peel(t.elt, k - 1)
    ELSE [node |-> "NotAnArray"]

PointerKinds == {"bool", "int", "float", "string", "time", "object", "extracted"}

\* C6: for a node of a pointer-eligible kind with arrayLevel k >= 1 (root or
\* not, whatever nullable, required and the options are) that does not reach a
\* panic, the type is exactly k array wrappers around the element type; the
\* element type is a pointer to the base type if arrayWithNulls is set and the
\* base type itself if not, the base type being an identifier or a struct.
C6_ArrayPointerPolicy ==
    Finished => \A n \in InputNodes :
       (n.kind \in PointerKinds /\ n.arrayLevel >= 1
          /\ ~IsPanic(astTypeFromNode(n, opts))) =>
          LET elt == Peel(astTypeFromNode(n, opts), n.arrayLevel)
              base == baseType(n, opts)
          IN  /\ base.node \in {"Ident", "StructType"}
              /\ n.kind = "bool" => base = Ident(strBool)
              /\ n.kind = "int" => base = Ident(strInt64)
              /\ n.kind = "float" => base = Ident(strFloat64)
              /\ n.kind = "string" => base = Ident(strString)
              /\ elt = IF n.arrayWithNulls THEN StarExpr(base) ELSE base

\* A nullable, not-required integer field with arrayLevel 2 and arrayWithNulls
\* has been declared [][]*int64.
C6_Witness ==
    /\ pc = "returned"
    /\ ProbeIsField
    /\ ProbeField.kind = "int"
    /\ ProbeField.arrayLevel = 2
    /\ ProbeField.arrayWithNulls
    /\ ProbeField.nullable
    /\ ~ProbeField.required
    /\ ProbeFieldType = ArrayType(ArrayType(StarExpr(Ident(strInt64))))

\* C7: for a node of kind map, interface or init that does not reach a panic,
\* with any nullable, required, root, arrayLevel, arrayWithNulls and options,
\* the type under its arrayLevel array wrappers is the map or empty-interface
\* expression itself, never a pointer to it.
C7_NoPointerToMapOrInterface ==
    Finished => \A n \in InputNodes :
       (n.kind \in {"map", "interface", "init"}
          /\ ~IsPanic(astTypeFromNode(n, opts))) =>
          LET elt == Peel(astTypeFromNode(n, opts), n.arrayLevel)
          IN  IF n.kind = "map"
              THEN /\ elt.node = "MapType"
                   /\ elt.key = Ident(strString)
              ELSE elt = newEmptyInterfaceExpr

\* A nullable, not-required map field has been declared as a plain map.
C7_Witness ==
    /\ pc = "returned"
    /\ ProbeIsField
    /\ ProbeField.kind = "map"
    /\ ProbeField.nullable
    /\ ~ProbeField.required
    /\ ProbeField.arrayLevel = 0
    /\ ProbeFieldType.node = "MapType"

\* t without its array wrappers and without the pointer under them.
RECURSIVE Unwrapped(_)
Unwrapped(t) ==
    IF t.node = "ArrayType" THEN Unwrapped(t.elt)
    ELSE IF t.node = "StarExpr" THEN t.x
    ELSE t

\* C8: without timeAsStr the type of a root timestamp node is built on the
\* alias "= time.Time" and that of a non-root one on "time.Time"; with
\* timeAsStr both are built on string, and the type is the one a string node
\* with the same flags gets: with arrayLevel 0, *string iff the node is not a
\* root and is nullable, or not required under stringPointersWhenKeyMissing.
C8_TimestampRootVsNested ==
    Finished => \A n \in InputNodes :
       n.kind = "time" =>
          IF opts.timeAsStr
          THEN /\ Unwrapped(astTypeFromNode(n, opts)) = Ident(strString)
               /\ astTypeFromNode(n, opts)
                    = astTypeFromNode([n EXCEPT !.kind = "string"], opts)
               /\ n.arrayLevel = 0 =>
                    astTypeFromNode(n, opts)
                      = IF ~n.root
                           /\ (n.nullable
                               \/ (~n.required /\ opts.stringPointersWhenKeyMissing))
                        THEN StarExpr(Ident(strString))
                        ELSE Ident(strString)
          ELSE /\ Unwrapped(astTypeFromNode(n, opts))
                    = Ident(IF n.root THEN strTimeAlias ELSE strTime)
               /\ (n.root /\ n.arrayLevel = 0) =>
                    astTypeFromNode(n, opts) = Ident(strTimeAlias)

\* A root timestamp has been declared as the alias, without timeAsStr.
C8_Witness ==
    /\ pc = "returned"
    /\ ~opts.timeAsStr
    /\ Len(rootNodes) = 1
    /\ rootNodes[1].kind = "time"
    /\ rootNodes[1].arrayLevel = 0
    /\ ret.decls[1].type = Ident(strTimeAlias)

\* The index of the '"' that closes the quoted value q (which opens at index
\* 1), found as reflect.StructTag.Lookup finds it: a backslash skips the byte
\* after it.  0 when the value is not closed.
RECURSIVE ClosingQuote(_, _)
ClosingQuote(q, j) ==
    IF j > Len(q) THEN 0
    ELSE IF q[j] = 34 THEN j
    ELSE IF q[j] = 92 THEN ClosingQuote(q, j + 2)
    ELSE ClosingQuote(q, j + 1)

\* strconv.Unquote on the inside of a double-quoted literal.
RECURSIVE Unquote(_)
Unquote(s) ==
    IF s = <<>> THEN [ok |-> TRUE, str |-> <<>>]
    ELSE IF Head(s) \in {34, 10} THEN [ok |-> FALSE, str |-> <<>>]
    ELSE IF Head(s) = 92
    THEN IF Len(s) < 2 \/ s[2] \notin {34, 92, 110}
         THEN [ok |-> FALSE, str |-> <<>>]
         ELSE LET r == Unquote(SubSeq(s, 3, Len(s)))
                  b == IF s[2] = 110 THEN 10 ELSE s[2]
              IN  [ok |-> r.ok, str |-> <<b>> \o r.str]
    ELSE LET r == Unquote(Tail(s))
         IN  [ok |-> r.ok, str |-> <<Head(s)>> \o r.str]

\* The index of the first ',' of s, or Len(s) + 1.
RECURSIVE FirstComma(_, _)
FirstComma(s, j) ==
    IF j > Len(s) \/ s[j] = 44 THEN j ELSE FirstComma(s, j + 1)

\* What the raw-string literal lit says to a reader of struct tags: the value
\* of its json key (reflect.StructTag.Lookup), split at the first comma into
\* the serialization name and the options.
TagRead(lit) ==
    LET tag == SubSeq(lit, 2, Len(lit) - 1)
        q == SubSeq(tag, 6, Len(tag))
        close == ClosingQuote(q, 2)
        val == Unquote(SubSeq(q, 2, close - 1))
        comma == FirstComma(val.str, 1)
    IN  IF ~(Len(lit) >= 2 /\ lit[1] = 96 /\ lit[Len(lit)] = 96)
           \/ ~IsPrefix(<<106, 115, 111, 110, 58, 34>>, tag)
           \/ close = 0
           \/ ~val.ok
        THEN [ok |-> FALSE, name |-> <<>>, omitempty |-> FALSE]
        ELSE [ok |-> TRUE,
              name |-> SubSeq(val.str, 1, comma - 1),
              omitempty |-> SubSeq(val.str, comma, Len(val.str)) = strOmitempty]

\* C9: in every struct of a returned declaration of a root object, the tag of
\* each field carries exactly the key of the field's child as the serialization
\* name, whatever bytes the key holds, and the omitempty marker iff the child is
\* not required.
C9_TagCompleteness ==
    pc = "returned" =>
       \A j \in 1..Len(rootNodes) :
          (rootNodes[j].kind = "object" /\ rootNodes[j].arrayLevel = 0) =>
             \A c \in 1..Len(rootNodes[j].children) :
                \E f \in 1..Len(ret.decls[j].type.fields) :
                   LET child == rootNodes[j].children[c]
                       field == ret.decls[j].type.fields[f]
                   IN  /\ field.name = child.name
                       /\ TagRead(field.tag.value)
                            = [ok |-> TRUE, name |-> child.key,
                               omitempty |-> ~child.required]

\* A forest reaches a node of an unrecognized kind: at a root, in a field of an
\* object (at any depth), or as the value child of a map.
RECURSIVE ReachesUnknown(_)
ReachesUnknown(n) ==
    \/ n.kind \notin RecognizedKinds
    \/ /\ n.kind = "object"
       /\ \E c \in 1..Len(n.children) : ReachesUnknown(n.children[c])
    \/ /\ n.kind = "map"
       /\ Len(n.children) > 0
       /\ ReachesUnknown(n.children[1])

ForestReachesUnknown == \E j \in 1..Len(rootNodes) : ReachesUnknown(rootNodes[j])

AbortOrTotalSafety ==
    /\ ForestReachesUnknown => (~ret.returned /\ ret.decls = <<>> /\ out = <<>>)
    /\ pc = "panic" => (ForestReachesUnknown /\ ret.panicked)
    /\ ret.returned =>
          /\ ~ForestReachesUnknown
          /\ Len(ret.decls) = Len(rootNodes)
          /\ \A j \in 1..Len(rootNodes) :
                /\ ret.decls[j].tok = "TYPE"
                /\ ret.decls[j].name = rootNodes[j].name
                /\ ret.decls[j].type = astTypeFromNode(rootNodes[j], opts)

\* What is left of the run: the roots not yet visited, then return and print.
Remaining ==
    CASE pc = "loop" -> Len(rootNodes) + 3 - i
      [] pc = "returned" -> 1
      [] OTHER -> 0

\* C10: when the traversal reaches a node of an unrecognized kind the run ends
\* in a panic and never returns a declaration, whatever it had made for the
\* roots before; when it reaches none, the run never panics and returns exactly
\* one declaration per root node, in input order, under that node's name; and
\* the loop leaves once every root is visited, each step bringing the run
\* closer to its end.
C10_AbortOrTotal ==
    /\ []AbortOrTotalSafety
    /\ [](pc = "loop" => i \in 1..(Len(rootNodes) + 1))
    /\ [][Remaining' < Remaining /\ Remaining' >= 0]_vars

\* The run panicked at the second root, after a declaration was made for the
\* first.
C10_Witness ==
    /\ pc = "panic"
    /\ i = 2
    /\ Len(decls) = 1
    /\ ~ReachesUnknown(rootNodes[1])
    /\ ReachesUnknown(rootNodes[2])

====
